---- MODULE Spec2Model ----
(***************************************************************************)
(* The task queue of app/services/task_queue.py (class TaskQueue) as a     *)
(* state machine: the registry self._tasks, the pending queue self._queue, *)
(* the worker coroutines, the per-GPU semaphores, the registry lock, the   *)
(* TaskHistory rows written through by the queue, and the API calls that   *)
(* are in flight.  asyncio runs one coroutine at a time and switches only  *)
(* at an await that suspends, so every action below is the code between    *)
(* two suspending awaits of one coroutine.                                 *)
(***************************************************************************)
EXTENDS Integers, Sequences, FiniteSets, TLC

(* ---------------------------------------------------------------- bounds *)
MaxJobs == 2
NumWorkers == 2
GpuCount == 1
NumCallers == 2
MaxTime == 2

(* ------------------------------------------------------------- constants *)
\* started_at / completed_at / timeout = None
NoTime == -1

None == "None"

Jobs == 1..MaxJobs
WorkerIds == 0..(NumWorkers - 1)
CallerIds == 1..NumCallers
Users == {1}
\* whether `task_type and prompt` is truthy for the submitted job
Metas == {TRUE}
\* what the compute routine may return, and the messages it may raise with
Results == {"img"}
Messages == {"boom"}
\* timeout arguments of get_task_result: None, 0, a positive number
Timeouts == {NoTime, 0, 1}
\* max_age_hours arguments of cleanup_old_tasks
MaxAges == {0, 1}
ExecutionModes == {"thread", "process"}

Max(a, b) == IF a >= b THEN a ELSE b

GpuIds == 0..(Max(1, GpuCount) - 1)

\* self._gpu_semaphores.get(gpu_id) is None: no semaphore under that index
NoSem == -1

\* the indices a worker may look a semaphore up under
SlotIds == 0..(Max(NumWorkers, Max(1, GpuCount)) - 1)

TerminalStatuses == {"completed", "failed", "cancelled"}

\* the registry has no entry for the id
NoTask ==
    [status |-> "absent", result |-> None, error |-> None, created_at |-> NoTime,
     started_at |-> NoTime, completed_at |-> NoTime, position_in_queue |-> 0,
     user_id |-> 0, meta |-> FALSE]

\* TaskResult(task_id, status=PENDING, position_in_queue=qsize + 1, ...)
TaskResult(t, pos, u, m) ==
    [status |-> "pending", result |-> None, error |-> None, created_at |-> t,
     started_at |-> NoTime, completed_at |-> NoTime, position_in_queue |-> pos,
     user_id |-> u, meta |-> m]

\* no TaskHistory row for the id
NoRow ==
    [status |-> "absent", started_at |-> NoTime, completed_at |-> NoTime,
     error_message |-> None, user_id |-> 0]

\* TaskHistory(task_id, user_id, task_type, prompt, status="pending")
PendingRow(u) ==
    [status |-> "pending", started_at |-> NoTime, completed_at |-> NoTime,
     error_message |-> None, user_id |-> u]

VARIABLES
    mode,       \* settings.task_queue.execution_mode
    max_workers,\* self._max_workers
    gpu_count,  \* self._gpu_count
    callers,    \* how many API calls the clients keep in flight at once
    running,    \* self._running
    stopping,   \* stop() has cancelled the workers and is awaiting them
    queue,      \* self._queue: the task ids of the queued Task objects
    tasks,      \* self._tasks: task id -> TaskResult
    gpu_id,     \* task.kwargs["_gpu_id"] of each Task
    history,    \* the TaskHistory table: task id -> row
    workers,    \* self._workers: worker id -> where the coroutine is suspended
    sem,        \* self._gpu_semaphores: gpu -> value of the Semaphore(1)
    lock,       \* self._lock: 0 when free, else the caller holding it
    calls,      \* the API calls in flight, one per caller
    files,      \* the temporary files of the process mode that exist
    now,        \* datetime.now() / time.time()
    nextId,     \* the next fresh task id (uuid4)
    cancelled,  \* per task: how many cancel_task calls returned True
    ret         \* what the step just taken returned to its caller

\* the configuration, fixed by TaskQueue.__init__ and the settings
cfg == <<mode, max_workers, gpu_count, callers>>

Callers == 1..callers

\* worker_id in range(self._max_workers)
Workers == 0..(max_workers - 1)

\* range(max(1, self._gpu_count))
Gpus == 0..(Max(1, gpu_count) - 1)

\* gpu_id = worker_id % max(1, self._gpu_count)
GpuOf(w) == w % Max(1, gpu_count)

vars ==
    <<mode, max_workers, gpu_count, callers, running, stopping, queue, tasks, gpu_id,
      history, workers, sem, lock, calls, files, now, nextId, cancelled, ret>>

\* op: the call that returned in the step just taken; job: its task id
\* (max_age_hours for cleanup); val: what it returned; n: the count it
\* returned (cleanup); st0: the status the job had when the call was made
Quiet == [op |-> "none", job |-> 0, val |-> None, n |-> 0, st0 |-> "absent"]
Ret(op, j, v) == [op |-> op, job |-> j, val |-> v, n |-> 0, st0 |-> "absent"]

NoWorker == [pc |-> "none", job |-> 0, st |-> None, ca |-> NoTime, exc |-> None]
IdleWorker == [pc |-> "idle", job |-> 0, st |-> None, ca |-> NoTime, exc |-> None]
ExitedWorker == [pc |-> "exited", job |-> 0, st |-> None, ca |-> NoTime, exc |-> None]

IdleCall ==
    [op |-> "idle", pc |-> "idle", job |-> 0, st0 |-> "absent", tmo |-> NoTime,
     t0 |-> 0, rec |-> NoTask]

Init ==
    /\ mode \in ExecutionModes
    /\ max_workers \in 1..NumWorkers
    /\ gpu_count \in 0..GpuCount
    /\ callers \in CallerIds
    /\ running = FALSE
    /\ stopping = FALSE
    /\ queue = <<>>
    /\ tasks = [j \in Jobs |-> NoTask]
    /\ gpu_id = [j \in Jobs |-> NoTime]
    /\ history = [j \in Jobs |-> NoRow]
    /\ workers = [w \in WorkerIds |-> NoWorker]
    /\ sem = [g \in SlotIds |-> NoSem]
    /\ lock = 0
    /\ calls = [c \in CallerIds |-> IdleCall]
    /\ files = {}
    /\ now = 0
    /\ nextId = 1
    /\ cancelled = [j \in Jobs |-> 0]
    /\ ret = Quiet

(* ------------------------------------------------------------ start/stop *)

\* a start that makes a semaphore per GPU and none when there is no GPU
SemaphoresPerGpu == [g \in SlotIds |-> IF g \in 0..(gpu_count - 1) THEN 1 ELSE sem[g]]

\* start: for i in range(max(1, self._gpu_count)):
\*            self._gpu_semaphores[i] = asyncio.Semaphore(1)
NewSemaphores == [g \in SlotIds |-> IF g \in Gpus THEN 1 ELSE sem[g]]

\* a start that does not look at _running
StartAlways ==
    /\ ~stopping
    /\ queue' = <<>>
    /\ sem' = NewSemaphores
    /\ running' = TRUE
    /\ workers' = [w \in WorkerIds |-> IF w \in Workers THEN IdleWorker ELSE NoWorker]
    /\ ret' = Ret("start", 0, "started")
    /\ UNCHANGED <<cfg, stopping, tasks, gpu_id, history, lock, calls, files,
                   now, nextId, cancelled>>

\* a start that keeps the queue of the previous run
StartKeepsQueue ==
    /\ ~stopping
    /\ IF running
       THEN /\ ret' = Ret("start", 0, "already_running")
            /\ UNCHANGED <<running, workers, sem>>
       ELSE /\ sem' = NewSemaphores
            /\ running' = TRUE
            /\ workers' = [w \in WorkerIds |-> IF w \in Workers THEN IdleWorker ELSE NoWorker]
            /\ ret' = Ret("start", 0, "started")
    /\ UNCHANGED <<cfg, stopping, queue, tasks, gpu_id, history, lock, calls, files,
                   now, nextId, cancelled>>

\* TaskQueue.start
Start ==
    /\ ~stopping
    /\ IF running
       THEN /\ ret' = Ret("start", 0, "already_running")
            /\ UNCHANGED <<running, queue, workers, sem>>
       ELSE /\ queue' = <<>>
            /\ sem' = NewSemaphores
            /\ running' = TRUE
            /\ workers' = [w \in WorkerIds |-> IF w \in Workers THEN IdleWorker ELSE NoWorker]
            /\ ret' = Ret("start", 0, "started")
    /\ UNCHANGED <<cfg, stopping, tasks, gpu_id, history, lock, calls, files,
                   now, nextId, cancelled>>

(* ------------------------------------------------------- TaskHistory *)

\* TaskQueue._save_task_to_db: db.add(TaskHistory(..., status="pending"))
SaveTaskToDb(h, j, u) == [h EXCEPT ![j] = PendingRow(u)]

\* TaskQueue._update_task_in_db: the row, when there is one, gets the
\* arguments that are not None
UpdateTaskInDb(h, j, st, sa, ca, em) ==
    IF h[j] = NoRow
    THEN h
    ELSE [h EXCEPT ![j] =
            [status |-> st,
             started_at |-> IF sa # NoTime THEN sa ELSE @.started_at,
             completed_at |-> IF ca # NoTime THEN ca ELSE @.completed_at,
             error_message |-> IF em # None THEN em ELSE @.error_message,
             user_id |-> @.user_id]]

\* a write either commits (ok), or raises and is logged by the
\* `except Exception` of _save_task_to_db / _update_task_in_db
DbWrite(h, ok) == history' = IF ok THEN h ELSE history

(* ---------------------------------------------------------------- submit *)

FreeCaller(c) ==
    /\ calls[c].op = "idle"
    /\ \A d \in Callers : d < c => calls[d].op # "idle"

\* a submit that never goes on to _save_task_to_db
RegisterSkipsHistory(c, j, rec) ==
    /\ tasks' = [tasks EXCEPT ![j] = rec]
    /\ queue' = Append(queue, j)
    /\ calls' = [calls EXCEPT ![c] = IdleCall]
    /\ ret' = Ret("submit", j, "task_id")

\* a submit that registers the record and loses the Task
RegisterOnly(c, j, rec) ==
    /\ tasks' = [tasks EXCEPT ![j] = rec]
    /\ queue' = queue
    /\ IF rec.meta
       THEN /\ calls' = [calls EXCEPT ![c] =
                           [IdleCall EXCEPT !.op = "submit", !.pc = "db", !.job = j]]
            /\ ret' = Quiet
       ELSE /\ calls' = [calls EXCEPT ![c] = IdleCall]
            /\ ret' = Ret("submit", j, "task_id")

\* submit, under self._lock: self._tasks[task_id] = task_result;
\* await self._queue.put(task); then on to _save_task_to_db when
\* `task_type and prompt`, else return task_id
Register(c, j, rec) ==
    /\ tasks' = [tasks EXCEPT ![j] = rec]
    /\ queue' = Append(queue, j)
    /\ IF rec.meta
       THEN /\ calls' = [calls EXCEPT ![c] =
                           [IdleCall EXCEPT !.op = "submit", !.pc = "db", !.job = j]]
            /\ ret' = Quiet
       ELSE /\ calls' = [calls EXCEPT ![c] = IdleCall]
            /\ ret' = Ret("submit", j, "task_id")

\* a submit without `if not self._running: raise RuntimeError`
SubmitUnchecked(c, u, m) ==
    /\ FreeCaller(c)
    /\ nextId <= MaxJobs
    /\ nextId' = nextId + 1
    /\ LET rec == TaskResult(now, Len(queue) + 1, u, m) IN
       IF lock = 0
       THEN Register(c, nextId, rec)
       ELSE /\ calls' = [calls EXCEPT ![c] =
                           [IdleCall EXCEPT !.op = "submit", !.pc = "lock",
                                            !.job = nextId, !.rec = rec]]
            /\ ret' = Quiet
            /\ UNCHANGED <<tasks, queue>>
    /\ UNCHANGED <<cfg, running, stopping, gpu_id, history, workers, sem, lock,
                   files, now, cancelled>>

\* TaskQueue.submit up to its first suspending await
Submit(c, u, m) ==
    /\ FreeCaller(c)
    /\ IF ~running
       THEN /\ ret' = Ret("submit", 0, "NotRunning")
            /\ UNCHANGED <<tasks, queue, calls, nextId>>
       ELSE /\ nextId <= MaxJobs
            /\ nextId' = nextId + 1
            /\ LET rec == TaskResult(now, Len(queue) + 1, u, m) IN
               IF lock = 0
               THEN Register(c, nextId, rec)
               ELSE /\ calls' = [calls EXCEPT ![c] =
                                   [IdleCall EXCEPT !.op = "submit", !.pc = "lock",
                                                    !.job = nextId, !.rec = rec]]
                    /\ ret' = Quiet
                    /\ UNCHANGED <<tasks, queue>>
    /\ UNCHANGED <<cfg, running, stopping, gpu_id, history, workers, sem, lock,
                   files, now, cancelled>>

\* submit resumes when self._lock is released
SubmitLocked(c) ==
    /\ calls[c].op = "submit"
    /\ calls[c].pc = "lock"
    /\ lock = 0
    /\ Register(c, calls[c].job, calls[c].rec)
    /\ UNCHANGED <<cfg, running, stopping, gpu_id, history, workers, sem, lock,
                   files, now, nextId, cancelled>>

\* a submit that lets the exception of a failing insert out
SubmitDbRaises(c, ok) ==
    /\ calls[c].op = "submit"
    /\ calls[c].pc = "db"
    /\ DbWrite(SaveTaskToDb(history, calls[c].job, tasks[calls[c].job].user_id), ok)
    /\ calls' = [calls EXCEPT ![c] = IdleCall]
    /\ ret' = Ret("submit", calls[c].job, IF ok THEN "task_id" ELSE "DbError")
    /\ UNCHANGED <<cfg, running, stopping, queue, tasks, gpu_id, workers, sem,
                   lock, files, now, nextId, cancelled>>

\* submit: await self._save_task_to_db(...); return task_id
SubmitDb(c, ok) ==
    /\ calls[c].op = "submit"
    /\ calls[c].pc = "db"
    /\ DbWrite(SaveTaskToDb(history, calls[c].job, tasks[calls[c].job].user_id), ok)
    /\ calls' = [calls EXCEPT ![c] = IdleCall]
    /\ ret' = Ret("submit", calls[c].job, "task_id")
    /\ UNCHANGED <<cfg, running, stopping, queue, tasks, gpu_id, workers, sem,
                   lock, files, now, nextId, cancelled>>

(* ---------------------------------------------------------------- cancel *)

\* a task id a client can pass: one that a submit has returned, or one (0)
\* that no submit ever returns
RequestIds ==
    {0} \cup {j \in Jobs :
                /\ j < nextId
                /\ \A c \in CallerIds : ~(calls[c].op = "submit" /\ calls[c].job = j)}

\* self._tasks.get(task_id)
Lookup(j) == IF j \in Jobs THEN tasks[j] ELSE NoTask

\* a cancel_task without `if task_result.status != TaskStatus.PENDING`
CancellableAnyStatus(rec) == rec # NoTask

\* a cancel_task that also takes a job that is running
CancellableUnlessTerminal(rec) == rec # NoTask /\ rec.status \in {"pending", "running"}

\* cancel_task: `if not task_result` / `if task_result.status != PENDING`
Cancellable(rec) == rec # NoTask /\ rec.status = "pending"

\* cancel_task: status = CANCELLED; completed_at = datetime.now()
MarkCancelled(rec, t) == [rec EXCEPT !.status = "cancelled", !.completed_at = t]

\* cancel_task once it holds self._lock, up to `await _update_task_in_db`
\* (still under the lock) or to `return False`
CancelLocked(c, j, s0) ==
    IF Cancellable(Lookup(j))
    THEN /\ tasks' = [tasks EXCEPT ![j] = MarkCancelled(tasks[j], now)]
         /\ lock' = c
         /\ calls' = [calls EXCEPT ![c] =
                        [IdleCall EXCEPT !.op = "cancel", !.pc = "db", !.job = j,
                                         !.st0 = s0]]
         /\ ret' = Quiet
    ELSE /\ calls' = [calls EXCEPT ![c] = IdleCall]
         /\ ret' = [Ret("cancel", j, "false") EXCEPT !.st0 = s0]
         /\ UNCHANGED <<tasks, lock>>

\* TaskQueue.cancel_task at the moment it is called: `async with self._lock`
\* suspends when another cancel_task holds the lock
Cancel(c, j) ==
    /\ FreeCaller(c)
    /\ IF lock = 0
       THEN CancelLocked(c, j, Lookup(j).status)
       ELSE /\ calls' = [calls EXCEPT ![c] =
                           [IdleCall EXCEPT !.op = "cancel", !.pc = "lock", !.job = j,
                                            !.st0 = Lookup(j).status]]
            /\ ret' = Quiet
            /\ UNCHANGED <<tasks, lock>>
    /\ UNCHANGED <<cfg, running, stopping, queue, gpu_id, history, workers, sem,
                   files, now, nextId, cancelled>>

\* cancel_task resumes when self._lock is released
CancelResume(c) ==
    /\ calls[c].op = "cancel"
    /\ calls[c].pc = "lock"
    /\ lock = 0
    /\ CancelLocked(c, calls[c].job, calls[c].st0)
    /\ UNCHANGED <<cfg, running, stopping, queue, gpu_id, history, workers, sem,
                   files, now, nextId, cancelled>>

\* cancel_task: the awaited _update_task_in_db(status="cancelled",
\* completed_at=...) returns, the lock is released, `return True`
CancelDb(c, ok) ==
    /\ calls[c].op = "cancel"
    /\ calls[c].pc = "db"
    /\ LET j == calls[c].job IN
       /\ DbWrite(UpdateTaskInDb(history, j, "cancelled", NoTime,
                                 tasks[j].completed_at, None), ok)
       /\ cancelled' = [cancelled EXCEPT ![j] = IF @ < 2 THEN @ + 1 ELSE @]
       /\ ret' = [Ret("cancel", j, "true") EXCEPT !.st0 = calls[c].st0]
    /\ lock' = 0
    /\ calls' = [calls EXCEPT ![c] = IdleCall]
    /\ UNCHANGED <<cfg, running, stopping, queue, tasks, gpu_id, workers, sem,
                   files, now, nextId>>

(* ------------------------------------------------------------- execution *)

\* what the compute routine does: returns a result or raises with a message
ComputeOutcomes ==
    {[kind |-> "return", val |-> r] : r \in Results}
        \cup {[kind |-> "raise", val |-> m] : m \in Messages}

\* what else may happen to the child process of the process mode: nothing,
\* it dies with a non-zero exit code before or after it wrote its output,
\* or it exits 0 leaving the output file empty or not JSON
ChildFaults == {"none", "crash", "late_crash", "empty", "garbage"}

\* json.loads(json.dumps(v)) of a payload: a tuple comes back as a list; a
\* dict of strings (what the inference routines return) and a string come
\* back as they were
JsonRoundTrip(v) == IF v = "tuple" THEN "list" ELSE v

\* a child that reports repr(e) where run_worker reports str(e)
ChildRunReprError(comp, fault) ==
    CASE fault = "crash" ->
            [code |-> 1, kind |-> "empty", status |-> None, payload |-> None]
      [] fault = "empty" ->
            [code |-> 0, kind |-> "empty", status |-> None, payload |-> None]
      [] fault = "garbage" ->
            [code |-> 0, kind |-> "garbage", status |-> None, payload |-> None]
      [] OTHER ->
            [code |-> IF fault = "late_crash" THEN 1 ELSE 0,
             kind |-> "json",
             status |-> IF comp.kind = "return" THEN "completed" ELSE "failed",
             payload |-> IF comp.kind = "return"
                         THEN JsonRoundTrip(comp.val)
                         ELSE "RuntimeError()"]

\* inference_worker.run_worker: the exit code and the output file it leaves
ChildRun(comp, fault) ==
    CASE fault = "crash" ->
            [code |-> 1, kind |-> "empty", status |-> None, payload |-> None]
      [] fault = "empty" ->
            [code |-> 0, kind |-> "empty", status |-> None, payload |-> None]
      [] fault = "garbage" ->
            [code |-> 0, kind |-> "garbage", status |-> None, payload |-> None]
      [] OTHER ->
            [code |-> IF fault = "late_crash" THEN 1 ELSE 0,
             kind |-> "json",
             status |-> IF comp.kind = "return" THEN "completed" ELSE "failed",
             payload |-> JsonRoundTrip(comp.val)]

\* a parent that reads the output file without `if proc.returncode != 0`
ParentReadNoExitCode(out) ==
    IF out.kind = "empty"
    THEN [kind |-> "raise",
          val |-> "Failed to get result from worker: Empty output file"]
    ELSE IF out.kind = "garbage"
    THEN [kind |-> "raise",
          val |-> "Failed to get result from worker: JSONDecodeError"]
    ELSE IF out.status = "failed"
    THEN [kind |-> "raise", val |-> out.payload]
    ELSE [kind |-> "return", val |-> out.payload]

\* _execute_task, process mode, after proc.communicate(): the outcome the
\* parent derives from the exit code and the output file
ParentRead(out) ==
    IF out.code # 0
    THEN [kind |-> "raise", val |-> "Worker process error: stderr"]
    ELSE IF out.kind = "empty"
    THEN [kind |-> "raise",
          val |-> "Failed to get result from worker: Empty output file"]
    ELSE IF out.kind = "garbage"
    THEN [kind |-> "raise",
          val |-> "Failed to get result from worker: JSONDecodeError"]
    ELSE IF out.status = "failed"
    THEN [kind |-> "raise", val |-> out.payload]
    ELSE [kind |-> "return", val |-> out.payload]

\* the outcomes of `result = ...` in _execute_task under the configured mode
ExecutionOutcomes ==
    IF mode = "process"
    THEN {ParentRead(ChildRun(comp, f)) : comp \in ComputeOutcomes, f \in ChildFaults}
    ELSE ComputeOutcomes

\* _execute_task: status = RUNNING; started_at = datetime.now()
MarkRunning(rec, t) == [rec EXCEPT !.status = "running", !.started_at = t]

\* a completion that does not store the result
MarkCompletedNoResult(rec, r, t) ==
    [rec EXCEPT !.status = "completed", !.completed_at = t]

\* _execute_task: status = COMPLETED; result = result; completed_at = now
MarkCompleted(rec, r, t) ==
    [rec EXCEPT !.status = "completed", !.result = r, !.completed_at = t]

\* _execute_task, `except Exception as e`: status = FAILED; error = str(e);
\* completed_at = now
MarkFailed(rec, msg, t) ==
    [rec EXCEPT !.status = "failed", !.error = msg, !.completed_at = t]

TempFiles(j) == {<<j, "args">>, <<j, "output">>}

\* _worker: `if semaphore: await semaphore.acquire()`, which takes the
\* semaphore when there is one under the worker's index
Acquired(w) == IF sem[GpuOf(w)] = NoSem THEN sem ELSE [sem EXCEPT ![GpuOf(w)] = 0]

\* a `finally` that gives no semaphore back
NotReleased(w) == sem

\* _worker, `finally`: `if semaphore: semaphore.release()`
Released(w) == IF sem[GpuOf(w)] = NoSem THEN sem ELSE [sem EXCEPT ![GpuOf(w)] = 1]

\* _worker after queue.get() returned task j and the semaphore is held:
\* _execute_task up to `await self._update_task_in_db(status="running")`;
\* a task id that is not in the registry returns at once, and the worker's
\* `finally` releases the semaphore
BeginExecute(w, j) ==
    IF tasks[j] = NoTask
    THEN /\ workers' = [workers EXCEPT ![w] = IdleWorker]
         /\ UNCHANGED <<tasks, sem>>
    ELSE /\ tasks' = [tasks EXCEPT ![j] = MarkRunning(tasks[j], now)]
         /\ sem' = Acquired(w)
         /\ workers' = [workers EXCEPT ![w] = [IdleWorker EXCEPT !.pc = "db_run", !.job = j]]

\* a worker that takes the item submitted last
DequeueLast(w) ==
    /\ running
    /\ ~stopping
    /\ workers[w].pc = "idle"
    /\ queue # <<>>
    /\ queue' = SubSeq(queue, 1, Len(queue) - 1)
    /\ IF sem[GpuOf(w)] # 0
       THEN BeginExecute(w, queue[Len(queue)])
       ELSE /\ workers' = [workers EXCEPT ![w] =
                              [IdleWorker EXCEPT !.pc = "acquire", !.job = queue[Len(queue)]]]
            /\ UNCHANGED <<tasks, sem>>
    /\ ret' = Quiet
    /\ UNCHANGED <<cfg, running, stopping, gpu_id, history, lock, calls, files,
                   now, nextId, cancelled>>

\* a worker that reads the head of the queue and leaves it there
DequeuePeek(w) ==
    /\ running
    /\ ~stopping
    /\ workers[w].pc = "idle"
    /\ queue # <<>>
    /\ queue' = queue
    /\ IF sem[GpuOf(w)] # 0
       THEN BeginExecute(w, Head(queue))
       ELSE /\ workers' = [workers EXCEPT ![w] =
                              [IdleWorker EXCEPT !.pc = "acquire", !.job = Head(queue)]]
            /\ UNCHANGED <<tasks, sem>>
    /\ ret' = Quiet
    /\ UNCHANGED <<cfg, running, stopping, gpu_id, history, lock, calls, files,
                   now, nextId, cancelled>>

\* _worker: `task = await asyncio.wait_for(self._queue.get(), 1.0)`, then
\* `await semaphore.acquire()`, which does not suspend when the semaphore is free
Dequeue(w) ==
    /\ running
    /\ ~stopping
    /\ workers[w].pc = "idle"
    /\ queue # <<>>
    /\ queue' = Tail(queue)
    /\ IF sem[GpuOf(w)] # 0
       THEN BeginExecute(w, Head(queue))
       ELSE /\ workers' = [workers EXCEPT ![w] =
                              [IdleWorker EXCEPT !.pc = "acquire", !.job = Head(queue)]]
            /\ UNCHANGED <<tasks, sem>>
    /\ ret' = Quiet
    /\ UNCHANGED <<cfg, running, stopping, gpu_id, history, lock, calls, files,
                   now, nextId, cancelled>>

\* _worker: the awaited semaphore.acquire() returns
Acquire(w) ==
    /\ ~stopping
    /\ workers[w].pc = "acquire"
    /\ sem[GpuOf(w)] # 0
    /\ BeginExecute(w, workers[w].job)
    /\ ret' = Quiet
    /\ UNCHANGED <<cfg, running, stopping, queue, gpu_id, history, lock, calls,
                   files, now, nextId, cancelled>>

\* _execute_task: the awaited _update_task_in_db(status="running",
\* started_at=...) returns; kwargs["_gpu_id"] is set when there are GPUs;
\* the process mode creates its two temporary files and spawns the child
DbRunning(w, ok) ==
    /\ ~stopping
    /\ workers[w].pc = "db_run"
    /\ LET j == workers[w].job IN
       /\ DbWrite(UpdateTaskInDb(history, j, "running", tasks[j].started_at,
                                 NoTime, None), ok)
       /\ gpu_id' = IF gpu_count > 0 THEN [gpu_id EXCEPT ![j] = GpuOf(w)] ELSE gpu_id
       /\ files' = IF mode = "process" THEN files \cup TempFiles(j) ELSE files
    /\ workers' = [workers EXCEPT ![w].pc = "exec"]
    /\ ret' = Quiet
    /\ UNCHANGED <<cfg, running, stopping, queue, tasks, sem, lock, calls, now,
                   nextId, cancelled>>

\* _execute_task: the awaited run_in_executor / proc.communicate() returns;
\* the temporary files are unlinked; the record gets its terminal status, up
\* to the awaited _update_task_in_db of the outcome
Executed(w, o, r) ==
    /\ ~stopping
    /\ workers[w].pc = "exec"
    /\ LET j == workers[w].job IN
       /\ tasks' = [tasks EXCEPT ![j] =
                       IF o.kind = "return"
                       THEN MarkCompleted(tasks[j], o.val, now)
                       ELSE MarkFailed(tasks[j], o.val, now)]
       /\ files' = files \ TempFiles(j)
       /\ workers' = [workers EXCEPT ![w] =
                         [pc |-> "db_fin", job |-> j,
                          st |-> IF o.kind = "return" THEN "completed" ELSE "failed",
                          ca |-> now,
                          exc |-> IF o.kind = "return" THEN None ELSE o.val]]
    /\ ret' = r
    /\ UNCHANGED <<cfg, running, stopping, queue, gpu_id, history, sem, lock,
                   calls, now, nextId, cancelled>>

\* the execution as the queue's clients see it: nothing is returned to anyone
Execute(w, o) == Executed(w, o, Quiet)

\* the messages a compute routine may raise with, the empty one included
\* (str(e) of an exception raised without arguments)
AnyMessages == {"", "boom"}

AnyComputeOutcomes ==
    {[kind |-> "return", val |-> r] : r \in Results}
        \cup {[kind |-> "raise", val |-> m] : m \in AnyMessages}

\* what happened in an execution: the outcome of the compute routine (st0,
\* val) and what happened to the child process (fault)
ExecRet(j, comp, f) ==
    [op |-> "exec", job |-> j, val |-> comp.val, n |-> 0, st0 |-> comp.kind,
     fault |-> f]

\* the execution with its cause on record: the compute routine ends with
\* comp, in the thread pool or in a child process to which f happens
ExecuteTask(w, comp, f) ==
    /\ mode = "thread" => f = "none"
    /\ Executed(w,
                IF mode = "process" THEN ParentRead(ChildRun(comp, f)) ELSE comp,
                ExecRet(workers[w].job, comp, f))

\* _execute_task, process mode: the awaited _update_task_in_db(status=
\* "running") returns, the arguments file is created, and json.dump of the
\* kwargs (or the creation of the output file) raises: the `except Exception`
\* marks the job failed, and the `finally` that unlinks the files is not
\* reached, because the `try` it belongs to was not entered
PrepareFails(w, ok) ==
    /\ ~stopping
    /\ mode = "process"
    /\ workers[w].pc = "db_run"
    /\ LET j == workers[w].job IN
       /\ DbWrite(UpdateTaskInDb(history, j, "running", tasks[j].started_at,
                                 NoTime, None), ok)
       /\ gpu_id' = IF gpu_count > 0 THEN [gpu_id EXCEPT ![j] = GpuOf(w)] ELSE gpu_id
       /\ files' = files \cup {<<j, "args">>}
       /\ tasks' = [tasks EXCEPT ![j] = MarkFailed(tasks[j], "TypeError", now)]
       /\ workers' = [workers EXCEPT ![w] =
                         [pc |-> "db_fin", job |-> j, st |-> "failed", ca |-> now,
                          exc |-> "TypeError"]]
    /\ ret' = Quiet
    /\ UNCHANGED <<cfg, running, stopping, queue, sem, lock, calls, now, nextId,
                   cancelled>>

\* a worker whose `finally` does not release the semaphore
LoopWithoutRelease(w) ==
    /\ sem' = sem
    /\ workers' = [workers EXCEPT ![w] = IdleWorker]

\* _worker, `finally`: semaphore.release(); self._queue.task_done(); the
\* loop goes back to queue.get()
ReleaseAndLoop(w) ==
    /\ sem' = Released(w)
    /\ workers' = [workers EXCEPT ![w] = IdleWorker]

\* _execute_task: the awaited _update_task_in_db(status="completed" /
\* "failed", completed_at=..., error_message=...) returns, then the
\* worker's `finally`
Finish(w, ok) ==
    /\ ~stopping
    /\ workers[w].pc = "db_fin"
    /\ DbWrite(UpdateTaskInDb(history, workers[w].job, workers[w].st, NoTime,
                              workers[w].ca, workers[w].exc), ok)
    /\ ReleaseAndLoop(w)
    /\ ret' = Quiet
    /\ UNCHANGED <<cfg, running, stopping, queue, tasks, gpu_id, lock, calls,
                   files, now, nextId, cancelled>>

(* ------------------------------------------------------------------ stop *)

\* TaskQueue.stop up to its first `await worker`: every worker coroutine has
\* been cancelled and gets CancelledError at the await it is suspended in
StopBegin ==
    /\ IF running
       THEN /\ running' = FALSE
            /\ stopping' = TRUE
            /\ ret' = Quiet
       ELSE /\ ret' = Ret("stop", 0, "not_running")
            /\ UNCHANGED <<running, stopping>>
    /\ UNCHANGED <<cfg, queue, tasks, gpu_id, history, workers, sem, lock, calls,
                   files, now, nextId, cancelled>>

\* _worker on CancelledError, which no `except Exception` catches: raised in
\* queue.get() or semaphore.acquire() the loop just breaks; raised inside
\* _execute_task it leaves the record as it is, the process mode's `finally`
\* unlinks the temporary files, and the worker's `finally` releases the
\* semaphore before the loop breaks
WorkerCancelled(w) ==
    /\ stopping
    /\ workers[w].pc \in {"idle", "acquire", "db_run", "exec", "db_fin"}
    /\ sem' = IF workers[w].pc \in {"db_run", "exec", "db_fin"}
              THEN Released(w)
              ELSE sem
    /\ files' = IF workers[w].pc = "exec" THEN files \ TempFiles(workers[w].job) ELSE files
    /\ workers' = [workers EXCEPT ![w] = ExitedWorker]
    /\ ret' = Quiet
    /\ UNCHANGED <<cfg, running, stopping, queue, tasks, gpu_id, history, lock,
                   calls, now, nextId, cancelled>>

\* TaskQueue.stop after every `await worker`: self._workers.clear();
\* self._executor.shutdown(wait=True)
StopEnd ==
    /\ stopping
    /\ \A w \in Workers : workers[w].pc = "exited"
    /\ workers' = [w \in WorkerIds |-> NoWorker]
    /\ stopping' = FALSE
    /\ ret' = Ret("stop", 0, "stopped")
    /\ UNCHANGED <<cfg, running, queue, tasks, gpu_id, history, sem, lock, calls,
                   files, now, nextId, cancelled>>

(* ------------------------------------------------------- get_task_result *)

\* get_task_result: `if timeout and (time.time() - start_time) > timeout`
TimedOut(tmo, t0, t) == tmo # NoTime /\ tmo # 0 /\ (t - t0) > tmo

\* an iteration that does not take Cancelled for a final status
PollOnceCancelledNotFinal(c, j, tmo, t0) ==
    IF Lookup(j) = NoTask
    THEN /\ ret' = Ret("result", j, None)
         /\ calls' = [calls EXCEPT ![c] = IdleCall]
    ELSE IF tasks[j].status \in {"completed", "failed"} \/ TimedOut(tmo, t0, now)
    THEN /\ ret' = Ret("result", j, tasks[j].status)
         /\ calls' = [calls EXCEPT ![c] = IdleCall]
    ELSE /\ ret' = Quiet
         /\ calls' = [calls EXCEPT ![c] =
                        [IdleCall EXCEPT !.op = "result", !.pc = "sleep", !.job = j,
                                         !.tmo = tmo, !.t0 = t0]]

\* get_task_result: one iteration of `while True`, which returns None, returns
\* the record, or goes to `await asyncio.sleep(0.5)`
PollOnce(c, j, tmo, t0) ==
    IF Lookup(j) = NoTask
    THEN /\ ret' = Ret("result", j, None)
         /\ calls' = [calls EXCEPT ![c] = IdleCall]
    ELSE IF tasks[j].status \in TerminalStatuses \/ TimedOut(tmo, t0, now)
    THEN /\ ret' = Ret("result", j, tasks[j].status)
         /\ calls' = [calls EXCEPT ![c] = IdleCall]
    ELSE /\ ret' = Quiet
         /\ calls' = [calls EXCEPT ![c] =
                        [IdleCall EXCEPT !.op = "result", !.pc = "sleep", !.job = j,
                                         !.tmo = tmo, !.t0 = t0]]

\* TaskQueue.get_task_result(task_id, timeout) up to its first sleep
GetTaskResult(c, j, tmo) ==
    /\ FreeCaller(c)
    /\ PollOnce(c, j, tmo, now)
    /\ UNCHANGED <<cfg, running, stopping, queue, tasks, gpu_id, history,
                   workers, sem, lock, files, now, nextId, cancelled>>

\* get_task_result: the sleep is over, next iteration
Poll(c) ==
    /\ calls[c].op = "result"
    /\ calls[c].pc = "sleep"
    /\ PollOnce(c, calls[c].job, calls[c].tmo, calls[c].t0)
    /\ UNCHANGED <<cfg, running, stopping, queue, tasks, gpu_id, history,
                   workers, sem, lock, files, now, nextId, cancelled>>

(* ----------------------------------------------------- cleanup_old_tasks *)

\* a cleanup whose comparison is `completed_at <= cutoff`
TaskIdsNotNewer(maxAge) ==
    {j \in Jobs :
        /\ tasks[j].status \in TerminalStatuses
        /\ tasks[j].completed_at # NoTime
        /\ tasks[j].completed_at <= now - maxAge}

\* cleanup_old_tasks: the ids appended to task_ids_to_remove, with
\* cutoff = datetime.now() - timedelta(hours=max_age_hours)
TaskIdsToRemove(maxAge) ==
    {j \in Jobs :
        /\ tasks[j].status \in TerminalStatuses
        /\ tasks[j].completed_at # NoTime
        /\ tasks[j].completed_at < now - maxAge}

\* TaskQueue.cleanup_old_tasks(max_age_hours)
CleanupOldTasks(maxAge) ==
    /\ tasks' = [j \in Jobs |-> IF j \in TaskIdsToRemove(maxAge) THEN NoTask ELSE tasks[j]]
    /\ ret' = [Ret("cleanup", maxAge, None) EXCEPT !.n = Cardinality(TaskIdsToRemove(maxAge))]
    /\ UNCHANGED <<cfg, running, stopping, queue, gpu_id, history, workers, sem,
                   lock, calls, files, now, nextId, cancelled>>

\* the clock advances
Tick ==
    /\ now < MaxTime
    /\ now' = now + 1
    /\ ret' = Quiet
    /\ UNCHANGED <<cfg, running, stopping, queue, tasks, gpu_id, history,
                   workers, sem, lock, calls, files, nextId, cancelled>>

(* -------------------------------------------------------- get_queue_info *)

\* get_queue_info(user_id=None): no filter
NoUser == 0

\* the owners of the submitted jobs when more than one user submits
AnyUsers == {1, 2}

\* a get_queue_info that counts every record whatever the user
TasksToCountAll(u) == {j \in Jobs : tasks[j] # NoTask}

\* get_queue_info: tasks_to_count
TasksToCount(u) ==
    IF u # NoUser
    THEN {j \in Jobs : tasks[j] # NoTask /\ tasks[j].user_id = u}
    ELSE {j \in Jobs : tasks[j] # NoTask}

\* sum(1 for t in tasks_to_count if t.status == st)
StatusCount(S, st) == Cardinality({j \in S : tasks[j].status = st})

\* TaskQueue.queue_size: self._queue.qsize()
QueueSize == Len(queue)

\* the dict get_queue_info returns
QueueInfo(u) ==
    [op |-> "info", job |-> 0, val |-> None, n |-> 0, st0 |-> "absent",
     user |-> u,
     is_running |-> running,
     gpu_count |-> gpu_count,
     max_workers |-> max_workers,
     queue_size |-> QueueSize,
     tasks |-> [pending |-> StatusCount(TasksToCount(u), "pending"),
                running |-> StatusCount(TasksToCount(u), "running"),
                completed |-> StatusCount(TasksToCount(u), "completed"),
                failed |-> StatusCount(TasksToCount(u), "failed"),
                total |-> Cardinality(TasksToCount(u))]]

\* TaskQueue.get_queue_info(user_id): a plain method, callable at any moment
GetQueueInfo(u) ==
    /\ ret' = QueueInfo(u)
    /\ UNCHANGED <<cfg, running, stopping, queue, tasks, gpu_id, history,
                   workers, sem, lock, calls, files, now, nextId, cancelled>>

(* ------------------------------------------------------- get_task_status *)

\* a position that is the job's rank among the queued items
GetQueueRank(j) == Cardinality({a \in 1..Len(queue) : \E b \in a..Len(queue) : queue[b] = j})

\* TaskQueue._get_queue_position(task_id): the number of Pending records
GetQueuePosition(j) == Cardinality({k \in Jobs : tasks[k].status = "pending"})

\* get_task_status: the registry after the position of a Pending job was
\* refreshed
Refreshed(j) ==
    IF Lookup(j) # NoTask /\ tasks[j].status = "pending"
    THEN [tasks EXCEPT ![j].position_in_queue = GetQueuePosition(j)]
    ELSE tasks

\* TaskQueue.get_task_status(task_id): it has no suspending await, so it runs
\* in one piece whenever a request calls it
GetTaskStatus(j) ==
    /\ tasks' = Refreshed(j)
    /\ ret' = IF Lookup(j) = NoTask
              THEN Ret("status", j, None)
              ELSE [Ret("status", j, tasks'[j].status) EXCEPT !.n = tasks'[j].position_in_queue]
    /\ UNCHANGED <<cfg, running, stopping, queue, gpu_id, history, workers, sem,
                   lock, calls, files, now, nextId, cancelled>>

(* ------------------------------------------------------ routers/tasks.py *)

\* who calls the task endpoints, as <<current_user.id, current_user.is_admin>>:
\* the owner of the jobs (Users), another user, and an administrator
Requesters == {<<1, FALSE>>, <<2, FALSE>>, <<2, TRUE>>}

\* the server process ends and a new one comes up: get_task_queue() makes a
\* new TaskQueue with an empty registry, the lifespan starts it, and
\* TaskHistory and the files on disk are what is left of the old jobs
ProcessRestart ==
    /\ running' = TRUE
    /\ stopping' = FALSE
    /\ queue' = <<>>
    /\ tasks' = [j \in Jobs |-> NoTask]
    /\ gpu_id' = [j \in Jobs |-> NoTime]
    /\ workers' = [w \in WorkerIds |-> IF w \in Workers THEN IdleWorker ELSE NoWorker]
    /\ sem' = [g \in SlotIds |-> IF g \in Gpus THEN 1 ELSE NoSem]
    /\ lock' = 0
    /\ calls' = [c \in CallerIds |-> IdleCall]
    /\ ret' = Ret("restart", 0, "started")
    /\ UNCHANGED <<cfg, history, files, now, nextId, cancelled>>

\* get_task_history_by_id(task_id)
HistoryById(j) == IF j \in Jobs THEN history[j] ELSE NoRow

\* what an endpoint answers: the HTTP status code, to whom (current_user.id,
\* current_user.is_admin), and whether the job was found in the registry
\* ("memory"), in TaskHistory ("history") or nowhere ("none")
RouteRet(route, u, a, j, code, src) ==
    [op |-> route, job |-> j, val |-> code, n |-> 0, st0 |-> "absent",
     user |-> u, admin |-> a, src |-> src]

\* the endpoints' answer for a job that is not in the registry: 404 without a
\* TaskHistory row, 403 `if task_history.user_id != current_user.id and not
\* current_user.is_admin`, else the row
FromHistory(route, u, a, j) ==
    IF HistoryById(j) = NoRow
    THEN RouteRet(route, u, a, j, "404", "none")
    ELSE IF HistoryById(j).user_id # u /\ ~a
    THEN RouteRet(route, u, a, j, "403", "history")
    ELSE RouteRet(route, u, a, j,
                  CASE HistoryById(j).status = "failed" -> "500"
                    [] HistoryById(j).status = "cancelled" -> "400"
                    [] OTHER -> "200",
                  "history")

\* GET /tasks/{task_id}: task_result.to_dict() when the registry has the job
RouteGetTaskStatus(u, a, j) ==
    /\ tasks' = Refreshed(j)
    /\ ret' = IF Lookup(j) # NoTask
              THEN RouteRet("route_status", u, a, j, "200", "memory")
              ELSE FromHistory("route_status", u, a, j)
    /\ UNCHANGED <<cfg, running, stopping, queue, gpu_id, history, workers, sem,
                   lock, calls, files, now, nextId, cancelled>>

\* GET /tasks/{task_id}/result with wait=false: the state or the result when
\* the registry has the job (500 with the error for a Failed one, 400 for a
\* Cancelled one)
RouteGetTaskResult(u, a, j) ==
    /\ tasks' = Refreshed(j)
    /\ ret' = IF Lookup(j) # NoTask
              THEN RouteRet("route_result", u, a, j,
                            CASE tasks[j].status = "failed" -> "500"
                              [] tasks[j].status = "cancelled" -> "400"
                              [] OTHER -> "200",
                            "memory")
              ELSE RouteRet("route_result", u, a, j, FromHistory("route_result", u, a, j).val,
                            FromHistory("route_result", u, a, j).src)
    /\ UNCHANGED <<cfg, running, stopping, queue, gpu_id, history, workers, sem,
                   lock, calls, files, now, nextId, cancelled>>

\* DELETE /tasks/{task_id}: 404 when the registry has no such job, 400 when
\* it is not Pending, else the route calls TaskQueue.cancel_task, which marks
\* the record and goes to its TaskHistory write ("cancel_task": the request
\* was passed on; CancelDb ends it)
RouteCancelTask(c, u, a, j) ==
    /\ FreeCaller(c)
    /\ lock = 0
    /\ IF Lookup(j) = NoTask
       THEN /\ ret' = RouteRet("route_cancel", u, a, j, "404", "none")
            /\ UNCHANGED <<tasks, lock, calls>>
       ELSE IF tasks[j].status # "pending"
       THEN /\ ret' = RouteRet("route_cancel", u, a, j, "400", "memory")
            /\ UNCHANGED <<tasks, lock, calls>>
       ELSE /\ tasks' = [Refreshed(j) EXCEPT ![j] = MarkCancelled(@, now)]
            /\ lock' = c
            /\ calls' = [calls EXCEPT ![c] =
                           [IdleCall EXCEPT !.op = "cancel", !.pc = "db", !.job = j,
                                            !.st0 = "pending"]]
            /\ ret' = RouteRet("route_cancel", u, a, j, "cancel_task", "memory")
    /\ UNCHANGED <<cfg, running, stopping, queue, gpu_id, history, workers, sem,
                   files, now, nextId, cancelled>>

(* -------------------------------------------------------- specifications *)

\* submit and cancel_task; OK: the outcomes of the TaskHistory writes
ApiCalls(OK) ==
    \/ \E c \in Callers, u \in Users, m \in Metas : Submit(c, u, m)
    \/ \E c \in Callers, ok \in OK : SubmitDb(c, ok)
    \/ \E c \in Callers, j \in RequestIds : Cancel(c, j)
    \/ \E c \in Callers, ok \in OK : CancelDb(c, ok)

\* calls that found self._lock held
LockWaits ==
    \/ \E c \in Callers : SubmitLocked(c)
    \/ \E c \in Callers : CancelResume(c)

\* the worker coroutines
WorkerSteps(OK) ==
    \/ \E w \in Workers : Dequeue(w)
    \/ \E w \in Workers, ok \in OK : DbRunning(w, ok)
    \/ \E w \in Workers, o \in ExecutionOutcomes : Execute(w, o)
    \/ \E w \in Workers, ok \in OK : Finish(w, ok)

\* a worker that found the semaphore of its GPU held
SemWaits == \E w \in Workers : Acquire(w)

\* stop(), from the cancellation of the workers to its return
Stop ==
    \/ StopBegin
    \/ \E w \in Workers : WorkerCancelled(w)
    \/ StopEnd

\* both execution modes, every outcome of an execution, two workers sharing
\* one GPU; API calls are made one at a time
Next ==
    \/ Start
    \/ Stop
    \/ ApiCalls({TRUE})
    \/ WorkerSteps({TRUE})
    \/ SemWaits

InitShared ==
    /\ Init
    /\ max_workers = NumWorkers
    /\ gpu_count = GpuCount
    /\ callers = 1

Spec == InitShared /\ [][Next]_vars

\* API calls of several callers in flight at once (contention on self._lock)
NextCalls ==
    \/ Start
    \/ Stop
    \/ ApiCalls({TRUE})
    \/ LockWaits
    \/ WorkerSteps({TRUE})
    \/ SemWaits

InitThread ==
    /\ Init
    /\ mode = "thread"
    /\ max_workers = NumWorkers
    /\ gpu_count = GpuCount
    /\ callers = NumCallers

SpecCalls == InitThread /\ [][NextCalls]_vars

\* the clock advances and old records are cleaned up while the queue runs;
\* one worker
NextTimed ==
    \/ Start
    \/ ApiCalls({TRUE})
    \/ WorkerSteps({TRUE})
    \/ Tick
    \/ \E maxAge \in MaxAges : CleanupOldTasks(maxAge)

InitSingle ==
    /\ Init
    /\ mode = "thread"
    /\ max_workers = 1
    /\ gpu_count = GpuCount
    /\ callers = 1

SpecTimed == InitSingle /\ [][NextTimed]_vars

\* callers wait for results while the clock advances and the queue runs;
\* one worker
NextPoll ==
    \/ Start
    \/ ApiCalls({TRUE})
    \/ WorkerSteps({TRUE})
    \/ Tick
    \/ \E c \in Callers, j \in RequestIds, tmo \in Timeouts : GetTaskResult(c, j, tmo)
    \/ \E c \in Callers : Poll(c)

SpecPoll == InitSingle /\ [][NextPoll]_vars

\* one worker executes jobs in either mode; every execution records the
\* outcome of the compute routine and what happened to the child process;
\* the compute routine may raise with an empty message, and the process
\* mode may fail while it prepares the arguments file
NextModes ==
    \/ Start
    \/ ApiCalls({TRUE})
    \/ \E w \in Workers : Dequeue(w)
    \/ \E w \in Workers : DbRunning(w, TRUE)
    \/ \E w \in Workers : PrepareFails(w, TRUE)
    \/ \E w \in Workers, comp \in AnyComputeOutcomes, f \in ChildFaults :
          ExecuteTask(w, comp, f)
    \/ \E w \in Workers : Finish(w, TRUE)

InitModes ==
    /\ Init
    /\ max_workers = 1
    /\ gpu_count = GpuCount
    /\ callers = 1

SpecModes == InitModes /\ [][NextModes]_vars

\* whether `task_type and prompt` is truthy, for any caller of submit
AnyMetas == BOOLEAN

\* submit with or without the metadata, and cancel_task; OK: the outcomes of
\* the TaskHistory writes
HistoryCalls(OK) ==
    \/ \E c \in Callers, u \in Users, m \in AnyMetas : Submit(c, u, m)
    \/ \E c \in Callers, ok \in OK : SubmitDb(c, ok)
    \/ \E c \in Callers, j \in RequestIds : Cancel(c, j)
    \/ \E c \in Callers, ok \in OK : CancelDb(c, ok)

\* every TaskHistory write may fail; jobs are submitted with and without the
\* metadata; one worker
NextHistory ==
    \/ Start
    \/ HistoryCalls(BOOLEAN)
    \/ WorkerSteps(BOOLEAN)

SpecHistory == InitSingle /\ [][NextHistory]_vars

\* callers cancel while the workers run and nobody stops the queue
NextCancel ==
    \/ Start
    \/ ApiCalls({TRUE})
    \/ LockWaits
    \/ WorkerSteps({TRUE})
    \/ SemWaits

\* the event loop resumes a worker whose awaited TaskHistory write or compute
\* routine has finished
WorkersProgress ==
    \A w \in WorkerIds :
        /\ WF_vars(DbRunning(w, TRUE))
        /\ WF_vars(\E o \in ExecutionOutcomes : Execute(w, o))

SpecCancel == InitThread /\ [][NextCancel]_vars /\ WorkersProgress

\* two users submit and cancel
InfoCalls ==
    \/ \E c \in Callers, u \in AnyUsers, m \in Metas : Submit(c, u, m)
    \/ \E c \in Callers : SubmitDb(c, TRUE)
    \/ \E c \in Callers, j \in RequestIds : Cancel(c, j)
    \/ \E c \in Callers : CancelDb(c, TRUE)

\* the queue is inspected, for everybody or for one user, while it runs;
\* one worker
NextInfo ==
    \/ Start
    \/ InfoCalls
    \/ WorkerSteps({TRUE})
    \/ \E u \in AnyUsers \cup {NoUser} : GetQueueInfo(u)
    \/ \E j \in RequestIds : GetTaskStatus(j)

SpecInfo == InitSingle /\ [][NextInfo]_vars

\* the queue with no GPU and with GpuCount GPUs: the workers, started and
\* stopped, share the semaphores of their indices
NextGpus ==
    \/ Start
    \/ Stop
    \/ ApiCalls({TRUE})
    \/ WorkerSteps({TRUE})
    \/ SemWaits

InitGpus ==
    /\ Init
    /\ mode = "thread"
    /\ max_workers = NumWorkers
    /\ callers = 1

SpecGpus == InitGpus /\ [][NextGpus]_vars

\* the event loop resumes every worker whose await can return: an item is in
\* the queue, the semaphore is free, the TaskHistory write is done, the
\* compute routine has ended
WorkersFair ==
    \A w \in WorkerIds :
        /\ WF_vars(Dequeue(w))
        /\ WF_vars(Acquire(w))
        /\ WF_vars(DbRunning(w, TRUE))
        /\ WF_vars(\E o \in ExecutionOutcomes : Execute(w, o))
        /\ WF_vars(Finish(w, TRUE))

\* the coordinator is started and never stopped, and every execution ends
SpecLive == InitThread /\ [][NextCancel]_vars /\ WorkersFair

\* the task endpoints, called by the owner, by another user and by an
\* administrator, on jobs that are in the registry and on jobs that a
\* restart of the server has left to TaskHistory alone; one worker
NextRoutes ==
    \/ Start
    \/ \E c \in Callers, u \in Users, m \in Metas : Submit(c, u, m)
    \/ \E c \in Callers : SubmitDb(c, TRUE)
    \/ \E c \in Callers : CancelDb(c, TRUE)
    \/ WorkerSteps({TRUE})
    \/ ProcessRestart
    \/ \E r \in Requesters, j \in RequestIds : RouteGetTaskStatus(r[1], r[2], j)
    \/ \E r \in Requesters, j \in RequestIds : RouteGetTaskResult(r[1], r[2], j)
    \/ \E c \in Callers, r \in Requesters, j \in RequestIds :
          RouteCancelTask(c, r[1], r[2], j)

SpecRoutes == InitSingle /\ [][NextRoutes]_vars

(* ---------------------------------------------------------------- claims *)

\* C1: every change of a job's status is Pending->Running,
\* Running->Completed, Running->Failed or Pending->Cancelled; a Completed,
\* Failed or Cancelled job never changes status again.
C1_StatusFollowsStateMachine ==
    [][\A j \in Jobs :
          (tasks[j] # NoTask /\ tasks'[j] # NoTask /\ tasks'[j].status # tasks[j].status)
              => <<tasks[j].status, tasks'[j].status>> \in
                    {<<"pending", "running">>, <<"running", "completed">>,
                     <<"running", "failed">>, <<"pending", "cancelled">>}]_vars

\* a job that cancel_task cancelled is being executed
C1_CancelledJobRuns ==
    \E j \in Jobs :
        /\ cancelled[j] = 1
        /\ tasks[j].status = "running"
        /\ tasks[j].completed_at # NoTime

\* C2: at every instant and for every accelerator index g, at most one job
\* assigned to g is Running.
C2_OneRunningJobPerGpu ==
    \A g \in GpuIds :
        Cardinality({j \in Jobs : tasks[j].status = "running" /\ gpu_id[j] = g}) <= 1

\* two records are Running on one GPU while one worker holds its semaphore
C2_TwoRunningOnOneGpu ==
    \E g \in GpuIds :
        /\ Cardinality({j \in Jobs : tasks[j].status = "running" /\ gpu_id[j] = g}) = 2
        /\ Cardinality({w \in WorkerIds : workers[w].pc \in {"db_run", "exec"}}) = 1

\* C3 (as stated): cancel(id) returns true exactly when the job's status was
\* Pending at the moment cancel was called.
C3_TrueIffPendingWhenCalled ==
    ret.op = "cancel" => (ret.val = "true" <=> ret.st0 = "pending")

\* C3 (amended): cancel(id) decides when it holds the registry lock: it
\* goes on to return true exactly when the job's status is Pending at that
\* moment, and in that very step sets the status to Cancelled and completedAt
\* to the current time; it returns false exactly when the job is unknown or
\* not Pending at that moment; a cancel that returns true was called on a
\* Pending job; cancel on one job returns true at most once.
C3_TrueIffPendingWhenExamined ==
    [][/\ \A c \in CallerIds :
             (calls[c].pc # "db" /\ calls'[c].op = "cancel" /\ calls'[c].pc = "db")
                 => /\ calls'[c].job \in Jobs
                    /\ tasks[calls'[c].job].status = "pending"
                    /\ tasks'[calls'[c].job].status = "cancelled"
                    /\ tasks'[calls'[c].job].completed_at = now
       /\ (ret'.op = "cancel" /\ ret'.val = "false")
             => /\ Lookup(ret'.job).status # "pending"
                /\ tasks' = tasks
       /\ (ret'.op = "cancel" /\ ret'.val = "true")
             => /\ ret'.st0 = "pending"
                /\ \E c \in CallerIds :
                      /\ calls[c].op = "cancel"
                      /\ calls[c].pc = "db"
                      /\ calls[c].job = ret'.job
       /\ \A j \in Jobs : cancelled'[j] <= 1]_vars

\* a cancel that waited for the lock returned false for a job that was
\* Pending when it was called, after another cancel returned true
C3_CancelDecidedUnderLock ==
    /\ ret.op = "cancel"
    /\ ret.val = "false"
    /\ ret.st0 = "pending"
    /\ \E j \in Jobs : cancelled[j] = 1 /\ tasks[j].completed_at # NoTime

\* C4: getResult(id, timeout = 0) on a job that is still Pending returns at
\* once; a getResult called with timeout 0 is never left waiting on a
\* Pending job.
C4_ZeroTimeoutReturnsAtOnce ==
    \A c \in CallerIds :
        (calls[c].op = "result" /\ calls[c].pc = "sleep" /\ calls[c].tmo = 0)
            => Lookup(calls[c].job).status # "pending"

\* a get_task_result with timeout 0 is still asleep after the clock has
\* run to its end
C4_ZeroTimeoutStillWaiting ==
    \E c \in CallerIds :
        /\ calls[c].op = "result"
        /\ calls[c].pc = "sleep"
        /\ calls[c].tmo = 0
        /\ now = MaxTime
        /\ now - calls[c].t0 > 0

\* C5: when stop() returns, no job record is left in Running: every job
\* that was Running when stop() was called has reached Completed or Failed.
C5_StopLeavesNoJobRunning ==
    (ret.op = "stop" /\ ret.val = "stopped")
        => \A j \in Jobs : tasks[j].status # "running"

\* stop() has returned, no worker exists, and a record is Running
C5_RunningAfterStop ==
    /\ ~running
    /\ ~stopping
    /\ \A w \in WorkerIds : workers[w].pc = "none"
    /\ \E j \in Jobs : tasks[j].status = "running"

\* C6: when the execution of a job raises, in either execution mode, the job
\* ends in Failed with the raised message as its error; the GPU semaphore held
\* for it is released when the worker leaves the job; unless stop() cancels
\* it, the worker goes back to waiting on the queue, and a worker waiting on a
\* non-empty queue of a running coordinator can dequeue.
C6_FailureIsContained ==
    [][\A w \in WorkerIds :
          /\ (workers[w].pc = "exec" /\ workers'[w].pc = "db_fin"
              /\ tasks'[workers[w].job].status # "completed")
                 => /\ tasks'[workers[w].job].status = "failed"
                    /\ tasks'[workers[w].job].error # None
                    /\ tasks'[workers[w].job].error = workers'[w].exc
                    /\ tasks'[workers[w].job].completed_at = now
                    /\ workers'[w].st = "failed"
                    /\ sem' = sem
          /\ (workers[w].pc = "db_fin" /\ workers[w].st = "failed"
              /\ workers'[w] # workers[w])
                 => /\ sem'[GpuOf(w)] = 1
                    /\ tasks'[workers[w].job].status = "failed"
                    /\ stopping \/ workers'[w].pc = "idle"
          /\ (running /\ ~stopping /\ workers[w].pc = "idle" /\ queue # <<>>)
                 => ENABLED Dequeue(w)]_vars

\* a child process died, its job is Failed with the message the parent
\* built, the next job was executed after it, and the semaphore is free
C6_FailedThenNextJobDone ==
    /\ mode = "process"
    /\ tasks[1].status = "failed"
    /\ tasks[1].error = "Worker process error: stderr"
    /\ tasks[2].status = "completed"
    /\ tasks[2].created_at >= tasks[1].created_at
    /\ running
    /\ \A w \in Workers : workers[w].pc = "idle"
    /\ \A g \in Gpus : sem[g] = 1

\* C7: cleanup(maxAge) removes from the registry exactly the records that
\* are Completed, Failed or Cancelled with completedAt older than maxAge,
\* returns the number of records it removed, leaves every other record as it
\* was, and changes nothing in TaskHistory or in the pending queue.
C7_CleanupRemovesExactlyOldTerminal ==
    [][ret'.op = "cleanup" =>
          LET old == {j \in Jobs :
                         /\ tasks[j].status \in {"completed", "failed", "cancelled"}
                         /\ tasks[j].completed_at # NoTime
                         /\ tasks[j].completed_at < now - ret'.job}
          IN  /\ \A j \in old : tasks'[j] = NoTask
              /\ \A j \in Jobs \ old : tasks'[j] = tasks[j]
              /\ ret'.n = Cardinality(old)
              /\ history' = history
              /\ queue' = queue]_vars

\* a cleanup removed a record whose TaskHistory row is still there and left a
\* terminal record that was not old enough
C7_CleanupRemovedOneKeptOne ==
    /\ ret.op = "cleanup"
    /\ ret.n = 1
    /\ \E j \in Jobs : tasks[j] = NoTask /\ history[j] # NoRow
    /\ \E j \in Jobs : tasks[j].status \in TerminalStatuses

\* C8: submit on a coordinator that is not running fails with NotRunning and
\* changes nothing: no record, nothing enqueued, nothing written to
\* TaskHistory, no task id used; a submit called while the coordinator is
\* not running returns nothing else, a submit is accepted only while the
\* coordinator is running, and a running coordinator accepts the submit of
\* a caller.
C8_SubmitNeedsRunning ==
    [][/\ (ret'.op = "submit" /\ ret'.val = "NotRunning")
             => /\ ~running
                /\ UNCHANGED <<tasks, queue, history, nextId, calls, running, workers>>
       /\ (nextId' # nextId) => running
       /\ (~running /\ ret'.op = "submit" /\ \A c \in CallerIds : calls[c].op # "submit")
             => ret'.val = "NotRunning"
       /\ (running /\ nextId <= MaxJobs /\ \E c \in Callers : calls[c].op = "idle")
             => ENABLED (\E c \in Callers, u \in Users, m \in Metas :
                            Submit(c, u, m) /\ nextId' # nextId)]_vars

\* a submit was refused on a coordinator that had been started, had accepted
\* a job and was stopped
C8_RefusedAfterStop ==
    /\ ret.op = "submit"
    /\ ret.val = "NotRunning"
    /\ ~running
    /\ nextId > 1
    /\ nextId <= MaxJobs

\* C9: a record enters the registry in the very step in which its WorkItem
\* is appended to the pending queue, and no other step appends to the queue;
\* the record is then Pending and is queued once; submit returns the id of a
\* registered record, and its return waits for no worker.
C9_SubmitRegistersAndEnqueues ==
    [][/\ \A j \in Jobs :
             /\ (tasks[j] = NoTask /\ tasks'[j] # NoTask) <=> (queue' = Append(queue, j))
             /\ (tasks[j] = NoTask /\ tasks'[j] # NoTask)
                   => /\ tasks'[j].status = "pending"
                      /\ \A i \in 1..Len(queue) : queue[i] # j
       /\ Len(queue') <= Len(queue) + 1
       /\ (ret'.op = "submit" /\ ret'.val = "task_id")
             => /\ ret'.job \in Jobs
                /\ tasks'[ret'.job] # NoTask
       /\ \A c \in CallerIds :
             (calls[c].op = "submit" /\ calls[c].pc = "db") => ENABLED SubmitDb(c, TRUE)]_vars

\* submit has returned the id of a job that is Pending and still queued
C9_ReturnedWhileQueued ==
    /\ ret.op = "submit"
    /\ ret.val = "task_id"
    /\ tasks[ret.job].status = "pending"
    /\ \E i \in 1..Len(queue) : queue[i] = ret.job
    /\ \A w \in Workers : workers[w].job # ret.job

\* C10: for every job record createdAt <= startedAt <= completedAt holds for
\* whichever of the three are set, and startedAt is assigned only at the
\* Pending->Running transition and never again.
C10_TimestampsOrdered ==
    [][\A j \in Jobs :
          /\ tasks'[j] # NoTask
                => /\ tasks'[j].started_at # NoTime
                        => tasks'[j].created_at <= tasks'[j].started_at
                   /\ tasks'[j].completed_at # NoTime
                        => tasks'[j].created_at <= tasks'[j].completed_at
                   /\ (tasks'[j].started_at # NoTime /\ tasks'[j].completed_at # NoTime)
                        => tasks'[j].started_at <= tasks'[j].completed_at
          /\ (tasks[j] # NoTask /\ tasks'[j] # NoTask
              /\ tasks'[j].started_at # tasks[j].started_at)
                => /\ tasks[j].started_at = NoTime
                   /\ tasks[j].status = "pending"
                   /\ tasks'[j].status = "running"]_vars

\* a record that started after it was completed
C10_StartedAfterCompleted ==
    \E j \in Jobs :
        /\ tasks[j].started_at # NoTime
        /\ tasks[j].completed_at # NoTime
        /\ tasks[j].started_at > tasks[j].completed_at

\* C15: in the process mode, once a job's execution has ended (Completed or
\* Failed), neither its arguments file nor its output file exists, and a
\* Failed job has a non-empty error string.
C15_NoFilesLeftAndErrorNonEmpty ==
    mode = "process" =>
        \A j \in Jobs :
            tasks[j].status \in {"completed", "failed"}
                => /\ files \cap TempFiles(j) = {}
                   /\ tasks[j].status = "failed" => tasks[j].error # ""

\* the compute routine raised with an empty message in a child process and
\* the job is Failed with the empty string as its error
C15_FailedWithEmptyError ==
    /\ mode = "process"
    /\ ret.op = "exec"
    /\ ret.fault = "none"
    /\ ret.st0 = "raise"
    /\ tasks[ret.job].status = "failed"
    /\ tasks[ret.job].error = ""

\* C16: in the process mode a job ends Completed exactly when the child
\* exited with code 0 and left an output file that is non-empty, parses and
\* reports success, and its result is then the payload; a non-zero exit code,
\* an empty output file, an unparsable output file and a reported failure
\* each end the job Failed, each with an error text of its own.
C16_ChildOutcomeDecidesStatus ==
    [][(ret'.op = "exec" /\ mode = "process") =>
          LET r == tasks'[ret'.job]
              f == ret'.fault
              texts == {"Worker process error: stderr",
                        "Failed to get result from worker: Empty output file",
                        "Failed to get result from worker: JSONDecodeError"}
          IN  /\ r.status \in {"completed", "failed"}
              /\ r.status = "completed" <=> (f = "none" /\ ret'.st0 = "return")
              /\ r.status = "completed" => r.result = ret'.val
              /\ f \in {"crash", "late_crash"}
                    => r.error = "Worker process error: stderr"
              /\ f = "empty"
                    => r.error = "Failed to get result from worker: Empty output file"
              /\ f = "garbage"
                    => r.error = "Failed to get result from worker: JSONDecodeError"
              /\ (f = "none" /\ ret'.st0 = "raise")
                    => (r.error = ret'.val /\ r.error \notin texts)]_vars

\* a child wrote a successful output and then exited with a non-zero code:
\* the job is Failed with the parent's message
C16_LateCrashIsFailed ==
    /\ mode = "process"
    /\ ret.op = "exec"
    /\ ret.fault = "late_crash"
    /\ ret.st0 = "return"
    /\ tasks[ret.job].status = "failed"
    /\ tasks[ret.job].error = "Worker process error: stderr"

C13_EveryTransitionWritesThrough ==
    [][\A j \in Jobs :
          /\ (tasks[j] = NoTask /\ tasks'[j] # NoTask)
                => \E c \in CallerIds :
                      /\ calls'[c].op = "submit"
                      /\ calls'[c].pc = "db"
                      /\ calls'[c].job = j
          /\ (tasks[j] # NoTask /\ tasks'[j].status # tasks[j].status
              /\ tasks'[j].status = "running")
                => \E w \in WorkerIds : workers'[w].pc = "db_run" /\ workers'[w].job = j
          /\ (tasks[j] # NoTask /\ tasks'[j].status # tasks[j].status
              /\ tasks'[j].status \in {"completed", "failed"})
                => \E w \in WorkerIds : workers'[w].pc = "db_fin" /\ workers'[w].job = j
          /\ (tasks[j] # NoTask /\ tasks'[j].status # tasks[j].status
              /\ tasks'[j].status = "cancelled")
                => \E c \in CallerIds :
                      /\ calls'[c].op = "cancel"
                      /\ calls'[c].pc = "db"
                      /\ calls'[c].job = j]_vars

\* C13 (amended): the creation of a job that carries a task type and a prompt
\* and every later transition of any job leave the coroutine that made it
\* at a TaskHistory write for that job, which it can then make; a job
\* submitted without task type or prompt is returned at once, gets no insert,
\* and never has a TaskHistory row.
C13_TransitionsOfDescribedJobsWriteThrough ==
    [][/\ \A j \in Jobs :
             /\ (tasks[j] = NoTask /\ tasks'[j] # NoTask /\ tasks'[j].meta)
                   => \E c \in CallerIds :
                         /\ calls'[c].op = "submit"
                         /\ calls'[c].pc = "db"
                         /\ calls'[c].job = j
             /\ (tasks[j] = NoTask /\ tasks'[j] # NoTask /\ ~tasks'[j].meta)
                   => /\ ret' = Ret("submit", j, "task_id")
                      /\ \A c \in CallerIds : calls'[c].op # "submit"
             /\ (tasks[j] # NoTask /\ ~tasks[j].meta) => history'[j] = NoRow
             /\ (tasks[j] # NoTask /\ tasks'[j].status # tasks[j].status
                 /\ tasks'[j].status = "running")
                   => \E w \in WorkerIds : workers'[w].pc = "db_run" /\ workers'[w].job = j
             /\ (tasks[j] # NoTask /\ tasks'[j].status # tasks[j].status
                 /\ tasks'[j].status \in {"completed", "failed"})
                   => \E w \in WorkerIds : workers'[w].pc = "db_fin" /\ workers'[w].job = j
             /\ (tasks[j] # NoTask /\ tasks'[j].status # tasks[j].status
                 /\ tasks'[j].status = "cancelled")
                   => \E c \in CallerIds :
                         /\ calls'[c].op = "cancel"
                         /\ calls'[c].pc = "db"
                         /\ calls'[c].job = j
       /\ \A c \in CallerIds :
             /\ (calls[c].op = "submit" /\ calls[c].pc = "db") => ENABLED SubmitDb(c, TRUE)
             /\ (calls[c].op = "cancel" /\ calls[c].pc = "db") => ENABLED CancelDb(c, TRUE)
       /\ \A w \in WorkerIds :
             /\ workers[w].pc = "db_run" => ENABLED DbRunning(w, TRUE)
             /\ workers[w].pc = "db_fin" => ENABLED Finish(w, TRUE)]_vars

\* a job with the metadata is Completed in TaskHistory, and a job without it
\* is Completed in the registry and has no row
C13_RowOnlyForDescribedJob ==
    /\ tasks[1].meta
    /\ history[1].status = "completed"
    /\ tasks[2].status = "completed"
    /\ ~tasks[2].meta
    /\ history[2] = NoRow

\* C14: whether a TaskHistory write commits or fails, the step that makes it
\* has the same effect on the scheduler: submit returns the job id, cancel
\* returns true and releases the lock, the worker goes on to execute or
\* back to the queue, and the registry is not touched; and the step can be
\* taken with a failing write wherever it can with a working one.
C14_HistoryFailureStaysInHistory ==
    [][/\ \A c \in CallerIds :
             /\ (calls[c].op = "submit" /\ calls[c].pc = "db" /\ calls'[c] # calls[c])
                   => /\ ret' = Ret("submit", calls[c].job, "task_id")
                      /\ calls'[c] = IdleCall
                      /\ tasks' = tasks
                      /\ queue' = queue
             /\ (calls[c].op = "cancel" /\ calls[c].pc = "db" /\ calls'[c] # calls[c])
                   => /\ ret'.op = "cancel"
                      /\ ret'.val = "true"
                      /\ ret'.job = calls[c].job
                      /\ calls'[c] = IdleCall
                      /\ lock' = 0
                      /\ tasks' = tasks
             /\ (calls[c].op = "submit" /\ calls[c].pc = "db") => ENABLED SubmitDb(c, FALSE)
             /\ (calls[c].op = "cancel" /\ calls[c].pc = "db") => ENABLED CancelDb(c, FALSE)
       /\ \A w \in WorkerIds :
             /\ (workers[w].pc = "db_run" /\ workers'[w] # workers[w])
                   => /\ workers'[w] = [workers[w] EXCEPT !.pc = "exec"]
                      /\ tasks' = tasks
             /\ (workers[w].pc = "db_fin" /\ workers'[w] # workers[w])
                   => /\ workers'[w] = IdleWorker
                      /\ sem'[GpuOf(w)] = 1
                      /\ tasks' = tasks
             /\ workers[w].pc = "db_run" => ENABLED DbRunning(w, FALSE)
             /\ workers[w].pc = "db_fin" => ENABLED Finish(w, FALSE)]_vars

\* every TaskHistory write for a job failed, and the job is Completed
\* in the registry after submit returned its id
C14_CompletedWithoutAnyRow ==
    \E j \in Jobs :
        /\ tasks[j].meta
        /\ tasks[j].status = "completed"
        /\ tasks[j].result # None
        /\ history[j] = NoRow
        /\ \A c \in Callers : calls[c].op = "idle"
        /\ \A w \in Workers : workers[w].pc = "idle"

\* C11: in every reachable state a job record has its result set exactly
\* when its status is Completed, and its error set exactly when its status
\* is Failed.
C11_ResultIffCompletedErrorIffFailed ==
    \A j \in Jobs :
        tasks[j] # NoTask
            => /\ (tasks[j].result # None) <=> (tasks[j].status = "completed")
               /\ (tasks[j].error # None) <=> (tasks[j].status = "failed")

\* one job is Completed with its result and another is Failed with its error
C11_OneCompletedOneFailed ==
    \E j, k \in Jobs :
        /\ tasks[j].status = "completed"
        /\ tasks[j].result \in Results
        /\ tasks[k].status = "failed"
        /\ tasks[k].error \in Messages

C18_StartWhileRunningIsNoOp ==
    [][/\ (running /\ ret'.op = "start")
             => /\ ret' = Ret("start", 0, "already_running")
                /\ UNCHANGED <<cfg, running, stopping, queue, tasks, gpu_id, history,
                               workers, sem, lock, calls, files, now, nextId,
                               cancelled>>
       /\ (ret'.op = "start" /\ ret'.val = "already_running") => running
       /\ running => ENABLED Start]_vars

\* start() has just returned from a running coordinator that has a job
\* queued and a worker executing another with its semaphore held
C18_StartedTwiceWhileBusy ==
    /\ ret = Ret("start", 0, "already_running")
    /\ queue # <<>>
    /\ \E w \in Workers :
          /\ workers[w].pc = "exec"
          /\ sem[GpuOf(w)] = 0
          /\ tasks[workers[w].job].status = "running"

\* C19: the steps of stop() (clearing the running flag, cancelling each
\* worker, returning) change no record, so a job Pending at stop time stays
\* Pending; a start() that starts the coordinator leaves the queue empty; a
\* job enters the queue only when it is created by submit; and a Pending job
\* that is neither queued nor in the hands of a worker is not executed.
C19_StopKeepsPendingAndRestartDropsIt ==
    [][/\ ((running /\ ~running') \/ stopping' # stopping
           \/ (stopping /\ workers' # workers))
             => tasks' = tasks
       /\ (ret'.op = "start" /\ ret'.val = "started") => queue' = <<>>
       /\ \A a \in 1..Len(queue') :
             (\A b \in 1..Len(queue) : queue[b] # queue'[a])
                => /\ tasks[queue'[a]] = NoTask
                   /\ tasks'[queue'[a]].status = "pending"
       /\ \A j \in Jobs :
             (/\ tasks[j] # NoTask
              /\ tasks[j].status = "pending"
              /\ \A a \in 1..Len(queue) : queue[a] # j
              /\ \A w \in WorkerIds : ~(workers[w].pc = "acquire" /\ workers[w].job = j))
                => /\ tasks'[j].status \in {"pending", "cancelled"}
                   /\ \A a \in 1..Len(queue') : queue'[a] # j
                   /\ \A w \in WorkerIds : workers'[w].job # j]_vars

\* after a stop and a restart a job is still Pending, in no queue and in no
\* worker's hands, while a job submitted after it is Completed
C19_PendingLostAfterRestart ==
    \E j, k \in Jobs :
        /\ j < k
        /\ running
        /\ tasks[j].status = "pending"
        /\ \A a \in 1..Len(queue) : queue[a] # j
        /\ \A w \in WorkerIds : workers[w].job # j
        /\ tasks[k].status = "completed"

\* C20: a cancel on a job that was Running, terminal or unknown when it was
\* called returns false, and the step in which it returns false changes
\* nothing but the call itself; no step of a cancel touches a worker that is
\* executing; and a job that was Running when cancel was called, once the
\* cancel has returned false, goes on to Completed or Failed.
C20_CancelOfRunningIsRefusedAndHarmless ==
    /\ [][/\ (ret'.op = "cancel" /\ ret'.st0 # "pending") => ret'.val = "false"
          /\ (ret'.op = "cancel" /\ ret'.val = "false")
                => UNCHANGED <<cfg, running, stopping, queue, tasks, gpu_id, history,
                               workers, sem, lock, files, now, nextId, cancelled>>
          /\ \A c \in CallerIds :
                (calls'[c] # calls[c] /\ calls'[c].op = "cancel"
                 /\ calls'[c].st0 # "pending")
                   => /\ calls'[c].pc = "lock"
                      /\ calls[c].op \in {"idle", "cancel"}
                      /\ tasks' = tasks
          /\ \A w \in WorkerIds :
                (workers[w].pc = "exec"
                 /\ \E c \in CallerIds : calls'[c] # calls[c] /\ "cancel" \in {calls[c].op, calls'[c].op})
                   => /\ workers'[w] = workers[w]
                      /\ sem' = sem
                      /\ \A o \in ExecutionOutcomes : ENABLED Execute(w, o)]_vars
    /\ \A j \in Jobs :
          (ret.op = "cancel" /\ ret.job = j /\ ret.val = "false" /\ ret.st0 = "running")
             ~> (tasks[j] # NoTask /\ tasks[j].status \in {"completed", "failed"})

\* cancel has just returned false for a job that a worker is executing
C20_RefusedWhileExecuting ==
    \E w \in Workers :
        /\ workers[w].pc = "exec"
        /\ tasks[workers[w].job].status = "running"
        /\ ret.op = "cancel"
        /\ ret.val = "false"
        /\ ret.st0 = "running"
        /\ ret.job = workers[w].job

\* C21: no step of get_task_result changes a record, the queue, a worker or
\* a semaphore; it returns None exactly for an id that is not in the
\* registry; an iteration that finds the record terminal returns it; what it
\* returns is the record's current status; and when it returns a
\* non-terminal record (on timeout) the job is still queued or in a worker's
\* hands, and a query on a terminal record can always be made.
C21_GetResultOnlyReads ==
    [][/\ \A c \in CallerIds :
             (calls'[c] # calls[c] /\ "result" \in {calls[c].op, calls'[c].op})
                => /\ UNCHANGED <<cfg, running, stopping, queue, tasks, gpu_id, history,
                                  workers, sem, lock, files, now, nextId, cancelled>>
                   /\ LET j == IF calls[c].op = "result" THEN calls[c].job ELSE calls'[c].job
                      IN (Lookup(j) # NoTask /\ tasks[j].status \in TerminalStatuses)
                            => ret' = Ret("result", j, tasks[j].status)
       /\ ret'.op = "result"
             => /\ (ret'.val = None) <=> (Lookup(ret'.job) = NoTask)
                /\ Lookup(ret'.job) # NoTask => ret'.val = tasks'[ret'.job].status
                /\ ret'.val \in {"pending", "running"}
                      => \/ \E a \in 1..Len(queue') : queue'[a] = ret'.job
                         \/ \E w \in WorkerIds :
                               /\ workers'[w].job = ret'.job
                               /\ workers'[w].pc \in {"acquire", "db_run", "exec"}
       /\ \A j \in RequestIds :
             (Lookup(j) # NoTask /\ tasks[j].status \in TerminalStatuses
              /\ \E c \in Callers : calls[c].op = "idle")
                => \E c \in Callers : ENABLED GetTaskResult(c, j, NoTime)]_vars

\* get_task_result has just returned, on timeout, the record of a job that a
\* worker is still executing
C21_TimedOutWhileExecuting ==
    /\ ret.op = "result"
    /\ ret.val = "running"
    /\ \E w \in Workers :
          /\ workers[w].pc = "exec"
          /\ workers[w].job = ret.job
          /\ tasks[ret.job].status = "running"

\* C22 (as stated): with one worker and one GPU at most one job is Running
\* at a time, a job never starts while an earlier-submitted job that was not
\* cancelled is still Pending, and so, once the last of the submissions has
\* returned (and nothing was cancelled), the first job is Running or finished
\* while all the later ones are Pending.
C22_FifoAndFirstStartedOnceAllSubmitted ==
    [][/\ Cardinality({j \in Jobs : tasks'[j].status = "running"}) <= 1
       /\ \A k \in Jobs :
             (tasks[k] # NoTask /\ tasks[k].status # "running"
              /\ tasks'[k].status = "running")
                => \A j \in Jobs : j < k => tasks[j].status # "pending"
       /\ (/\ ret'.op = "submit"
           /\ ret'.job = MaxJobs
           /\ \A j \in Jobs : cancelled[j] = 0 /\ tasks'[j].status # "cancelled")
             => /\ tasks'[1].status \in {"running", "completed", "failed"}
                /\ \A j \in Jobs : j > 1 => tasks'[j].status = "pending"]_vars

\* C22 (amended): with one worker and one GPU, and no stop, at most one job
\* is Running at a time; a job never starts while an earlier-submitted job is
\* still Pending; and whenever a job has started, every job submitted before
\* it has started too or was cancelled -- so the jobs that have left Pending
\* are always the first ones submitted, but the first job may still be
\* Pending, or the second already started, when the last submit returns.
C22_StartsInSubmissionOrder ==
    [][/\ Cardinality({j \in Jobs : tasks'[j].status = "running"}) <= 1
       /\ \A k \in Jobs :
             (tasks[k] # NoTask /\ tasks[k].status # "running"
              /\ tasks'[k].status = "running")
                => \A j \in Jobs : j < k => tasks[j].status # "pending"
       /\ \A j, k \in Jobs :
             (j < k /\ tasks'[k] # NoTask /\ tasks'[k].started_at # NoTime)
                => \/ tasks'[j].started_at # NoTime
                   \/ tasks'[j].status = "cancelled"]_vars

\* the first job is finished and the second is running, nothing cancelled
C22_SecondRunsAfterFirst ==
    /\ tasks[1].status \in {"completed", "failed"}
    /\ tasks[2].status = "running"
    /\ tasks[1].started_at # NoTime
    /\ \A j \in Jobs : cancelled[j] = 0

C29_QueueSizeIsPendingCount ==
    /\ QueueSize = Cardinality({j \in Jobs : tasks[j].status = "pending"})
    /\ ret.op = "info"
          => ret.queue_size = Cardinality({j \in Jobs : tasks[j].status = "pending"})

\* get_queue_info has just reported queue_size 1 while no record is Pending:
\* the one queued item belongs to a cancelled job
C29_CancelledStillCounted ==
    /\ ret.op = "info"
    /\ ret.queue_size = 1
    /\ \A j \in Jobs : tasks[j].status # "pending"
    /\ \E j \in Jobs : tasks[j].status = "cancelled" /\ queue = <<j>>

\* C24: get_task_status(id) returns None for an id that is not in the
\* registry and the registry record otherwise; for a Pending job it sets the
\* record's position_in_queue to the number of Pending records, which is at
\* least 1; it changes no other field of any record and nothing else.
C24_StatusRefreshesOnlyThePosition ==
    [][ret'.op = "status"
          => /\ (ret'.val = None) <=> (Lookup(ret'.job) = NoTask)
             /\ Lookup(ret'.job) # NoTask
                   => /\ ret'.val = tasks[ret'.job].status
                      /\ ret'.n = tasks'[ret'.job].position_in_queue
                      /\ tasks' = [tasks EXCEPT ![ret'.job].position_in_queue = ret'.n]
                      /\ IF tasks[ret'.job].status = "pending"
                         THEN /\ ret'.n = Cardinality({k \in Jobs : tasks[k].status = "pending"})
                              /\ ret'.n >= 1
                         ELSE tasks' = tasks
             /\ Lookup(ret'.job) = NoTask => tasks' = tasks
             /\ UNCHANGED <<cfg, running, stopping, queue, gpu_id, history, workers,
                            sem, lock, calls, files, now, nextId, cancelled>>]_vars

\* get_task_status has just given position 2 to the job at the head of the
\* queue, the other Pending job being behind it
C24_HeadOfQueueAtPositionTwo ==
    /\ ret.op = "status"
    /\ ret.val = "pending"
    /\ ret.n = 2
    /\ Len(queue) = 2
    /\ queue[1] = ret.job
    /\ tasks[ret.job].position_in_queue = 2

C26_CancelledJobNeverExecuted ==
    \A j \in Jobs :
        cancelled[j] > 0
            => /\ \A w \in WorkerIds :
                     ~(workers[w].job = j /\ workers[w].pc \in {"db_run", "exec", "db_fin"})
               /\ tasks[j] # NoTask => tasks[j].started_at = NoTime
               /\ files \cap TempFiles(j) = {}

\* in the process mode a worker holds the semaphore and the child's files
\* exist for a job whose cancel_task returned true
C26_ChildSpawnedForCancelledJob ==
    \E j \in Jobs, w \in Workers :
        /\ mode = "process"
        /\ cancelled[j] = 1
        /\ workers[w].pc = "exec"
        /\ workers[w].job = j
        /\ sem[GpuOf(w)] = 0
        /\ TempFiles(j) \subseteq files

\* C27: while the coordinator is not stopped and every execution ends, a job
\* that is Pending or Running eventually is Completed, Failed or Cancelled; a
\* worker waiting for a semaphore eventually gets it; and a semaphore that
\* is held is eventually released.
C27_EveryJobEndsAndEverySlotIsFreed ==
    /\ \A j \in Jobs :
          (tasks[j].status \in {"pending", "running"})
             ~> (tasks[j].status \in TerminalStatuses)
    /\ \A w \in WorkerIds :
          (workers[w].pc = "acquire") ~> (workers[w].pc \in {"db_run", "idle"})
    /\ \A g \in GpuIds : (sem[g] = 0) ~> (sem[g] = 1)

\* every job was executed to its end, the second one by a worker that first
\* had to wait; the workers are back at the queue and the semaphore is free
C27_AllDoneAndIdle ==
    /\ running
    /\ \A j \in Jobs : tasks[j].status \in {"completed", "failed"}
    /\ \A j \in Jobs : cancelled[j] = 0
    /\ \A w \in Workers : workers[w].pc = "idle"
    /\ \A g \in Gpus : sem[g] = 1
    /\ queue = <<>>

\* C28: for a job whose TaskHistory row submit inserts, no write failing,
\* once the job is terminal in the registry and no write for it is still to
\* come (its submit has returned, no cancel of it is in flight, no worker
\* holds it), the row's status is the registry's status and the row has the
\* start time if the job ran.
C28_HistoryAgreesWhenQuiet ==
    \A j \in Jobs :
        (/\ tasks[j] # NoTask
         /\ tasks[j].meta
         /\ tasks[j].status \in TerminalStatuses
         /\ \A c \in CallerIds : ~(calls[c].op \in {"submit", "cancel"} /\ calls[c].job = j)
         /\ \A w \in WorkerIds : workers[w].job # j
         /\ \A a \in 1..Len(queue) : queue[a] # j)
            => /\ history[j].status = tasks[j].status
               /\ tasks[j].started_at # NoTime => history[j].started_at = tasks[j].started_at

\* a job is Completed in the registry, every write for it committed, and
\* its row is still Pending with no start time: the insert came last
C28_RowLeftPending ==
    \E j \in Jobs :
        /\ tasks[j].status = "completed"
        /\ tasks[j].meta
        /\ history[j].status = "pending"
        /\ history[j].started_at = NoTime
        /\ \A c \in Callers : calls[c].op = "idle"
        /\ \A w \in Workers : workers[w].pc = "idle"
        /\ ret = Ret("submit", j, "task_id")

\* C30: through the status, result and cancel endpoints a user who is not an
\* administrator and does not own the job -- whether the job is in the
\* registry or only in TaskHistory -- is refused (403) and changes nothing.
C30_OnlyOwnerOrAdminIsServed ==
    [][(/\ ret'.op \in {"route_status", "route_result", "route_cancel"}
        /\ ~ret'.admin
        /\ ret'.src # "none"
        /\ ret'.user # (IF Lookup(ret'.job) # NoTask
                        THEN tasks[ret'.job].user_id
                        ELSE HistoryById(ret'.job).user_id))
          => /\ ret'.val = "403"
             /\ tasks' = tasks]_vars

\* DELETE /tasks/{id} by user 2, who is no administrator, has just made
\* cancel_task mark a job of user 1 Cancelled
C30_StrangerCancelledTheJob ==
    \E j \in Jobs :
        /\ ret.op = "route_cancel"
        /\ ret.val = "cancel_task"
        /\ ret.job = j
        /\ ret.user = 2
        /\ ~ret.admin
        /\ tasks[j].user_id = 1
        /\ tasks[j].status = "cancelled"
====
